---- MODULE Spec2Model ----
(***************************************************************************)
(* Model of the `lit commit -m` flow: the commit action of the CLI entry   *)
(* point, the git boundary (hasStagedFiles, getStagedDiff,                 *)
(* commitWithMessage), generateConventionalCommit with its timeout timer   *)
(* and its fallback classifier.  Texts are TLA+ strings; a character is a  *)
(* string of length one.                                                   *)
(***************************************************************************)
EXTENDS Integers, Sequences, FiniteSets, TLC

(***************************************************************************)
(* Bounds of the model.                                                    *)
(***************************************************************************)
\* length of the run of context characters that makes the long diff exceed
\* the payload budget
PadLen == 3990
\* amount by which the clock advances in one step, in milliseconds
ClockStep == 5000
\* the clock stops advancing once it has reached this value
MaxClock == 20000

(***************************************************************************)
(* Program constants.                                                      *)
(***************************************************************************)
DIFF_LIMIT == 4000
TIMEOUT_MS == 15000
TITLE_CUT == 60
TITLE_MAX == 72
BODY_FILES_MAX == 5

(***************************************************************************)
(* JavaScript string primitives.                                           *)
(***************************************************************************)
Min(a, b) == IF a < b THEN a ELSE b

CharAt(s, i) == SubSeq(s, i, i)

\* s.substring(0, n)
substring0(s, n) == SubSeq(s, 1, Min(n, Len(s)))

\* s.includes(w)
includes(s, w) == \E i \in 1..(Len(s) - Len(w) + 1) : SubSeq(s, i, i + Len(w) - 1) = w

\* s.startsWith(w)
startsWith(s, w) == Len(s) >= Len(w) /\ SubSeq(s, 1, Len(w)) = w

WhiteSpace == {" ", "\t", "\n", "\r"}

\* s.trim()
trim(s) ==
  LET n == Len(s)
      blank(i) == CharAt(s, i) \in WhiteSpace
  IN  IF \A i \in 1..n : blank(i) THEN ""
      ELSE SubSeq(s,
                  CHOOSE i \in 1..n : ~blank(i) /\ \A j \in 1..(i - 1) : blank(j),
                  CHOOSE i \in 1..n : ~blank(i) /\ \A j \in (i + 1)..n : blank(j))

UPPER == "ABCDEFGHIJKLMNOPQRSTUVWXYZ"
LOWER == "abcdefghijklmnopqrstuvwxyz"
DIGITS == "0123456789"

toLowerChar(c) ==
  IF \E i \in 1..Len(UPPER) : CharAt(UPPER, i) = c
  THEN CharAt(LOWER, CHOOSE i \in 1..Len(UPPER) : CharAt(UPPER, i) = c)
  ELSE c

\* s.toLowerCase()
RECURSIVE toLowerCase(_)
toLowerCase(s) ==
  IF Len(s) = 0 THEN ""
  ELSE IF Len(s) = 1 THEN toLowerChar(s)
  ELSE LET h == Len(s) \div 2
       IN  toLowerCase(SubSeq(s, 1, h)) \o toLowerCase(SubSeq(s, h + 1, Len(s)))

\* the class \w of a regular expression
IsWordChar(c) ==
  \/ \E i \in 1..Len(LOWER) : CharAt(LOWER, i) = c
  \/ \E i \in 1..Len(UPPER) : CharAt(UPPER, i) = c
  \/ \E i \in 1..Len(DIGITS) : CharAt(DIGITS, i) = c
  \/ c = "_"

\* the assertion \b of a regular expression between positions i and i + 1
Boundary(s, i) ==
  LET before == i >= 1 /\ IsWordChar(CharAt(s, i))
      after  == i + 1 <= Len(s) /\ IsWordChar(CharAt(s, i + 1))
  IN  before # after

\* variant: a keyword matches anywhere in the text
matchWord_Anywhere(s, words) == \E w \in words : includes(s, w)

\* s.match(/\b(w1|w2|...)\b/) is not null
matchWord(s, words) ==
  \E w \in words : \E i \in 1..(Len(s) - Len(w) + 1) :
     /\ SubSeq(s, i, i + Len(w) - 1) = w
     /\ Boundary(s, i - 1)
     /\ Boundary(s, i + Len(w) - 1)

\* the positions at which ^ matches under the m flag
LineTerminators == {"\n", "\r"}
RegexLineStarts(s) ==
  {1} \cup {i + 1 : i \in {j \in 1..Len(s) : CharAt(s, j) \in LineTerminators}}

\* (s.match(/^c[^c]/gm) || []).length, for a one-character c
countLed(s, c) ==
  Cardinality({p \in RegexLineStarts(s) :
                 /\ p + 1 <= Len(s)
                 /\ CharAt(s, p) = c
                 /\ CharAt(s, p + 1) # c})

(***************************************************************************)
(* The fallback classifier (lingo.js).                                     *)
(***************************************************************************)
CommitTypes == {"feat", "fix", "refactor", "docs", "chore", "test", "perf", "style"}

FeatWords     == {"add", "new", "create", "added", "created"}
FixWords      == {"fix", "bug", "resolve", "patch", "correct"}
RefactorWords == {"refactor", "restructure", "rewrite", "cleanup"}
DocsWords     == {"doc", "readme", "comment", "documentation"}
TestWords     == {"test", "spec", "testing"}
PerfWords     == {"perf", "performance", "optimize", "speed"}
StyleWords    == {"style", "format", "lint"}

\* variant: the fix keywords are tried before the feat keywords
keywordType_FixFirst(lowerMessage) ==
  IF matchWord(lowerMessage, FixWords) THEN "fix"
  ELSE IF matchWord(lowerMessage, FeatWords) THEN "feat"
  ELSE IF matchWord(lowerMessage, RefactorWords) THEN "refactor"
  ELSE IF matchWord(lowerMessage, DocsWords) THEN "docs"
  ELSE IF matchWord(lowerMessage, TestWords) THEN "test"
  ELSE IF matchWord(lowerMessage, PerfWords) THEN "perf"
  ELSE IF matchWord(lowerMessage, StyleWords) THEN "style"
  ELSE ""

\* the keyword step of detectCommitType; "" when no category matches
keywordType(lowerMessage) ==
  IF matchWord(lowerMessage, FeatWords) THEN "feat"
  ELSE IF matchWord(lowerMessage, FixWords) THEN "fix"
  ELSE IF matchWord(lowerMessage, RefactorWords) THEN "refactor"
  ELSE IF matchWord(lowerMessage, DocsWords) THEN "docs"
  ELSE IF matchWord(lowerMessage, TestWords) THEN "test"
  ELSE IF matchWord(lowerMessage, PerfWords) THEN "perf"
  ELSE IF matchWord(lowerMessage, StyleWords) THEN "style"
  ELSE ""

\* variant: twice the deletions is enough for feat
diffType_AtLeastTwice(diff) ==
  IF includes(diff, "test/") \/ includes(diff, ".test.") \/ includes(diff, ".spec.")
  THEN "test"
  ELSE IF includes(diff, "README") \/ includes(diff, ".md")
  THEN "docs"
  ELSE LET additions == countLed(diff, "+")
           deletions == countLed(diff, "-")
       IN  IF additions >= deletions * 2 THEN "feat" ELSE "fix"

\* the diff step of detectCommitType
diffType(diff) ==
  IF includes(diff, "test/") \/ includes(diff, ".test.") \/ includes(diff, ".spec.")
  THEN "test"
  ELSE IF includes(diff, "README") \/ includes(diff, ".md")
  THEN "docs"
  ELSE LET additions == countLed(diff, "+")
           deletions == countLed(diff, "-")
       IN  IF additions > deletions * 2 THEN "feat" ELSE "fix"

\* variant: the diff is inspected before the keywords
detectCommitType_DiffFirst(message, diff) ==
  LET k == keywordType(toLowerCase(message))
  IN  IF includes(diff, "test/") \/ includes(diff, ".test.") \/ includes(diff, ".spec.")
      THEN "test"
      ELSE IF k # "" THEN k ELSE diffType(diff)

detectCommitType(message, diff) ==
  LET k == keywordType(toLowerCase(message))
  IN  IF k # "" THEN k ELSE diffType(diff)

\* the start positions of the elements of diff.split('\n')
SplitStarts(s) == {1} \cup {i + 1 : i \in {j \in 1..Len(s) : CharAt(s, j) = "\n"}}

\* the element of s.split('\n') that starts at position p
LineAt(s, p) ==
  LET nls == {j \in p..Len(s) : CharAt(s, j) = "\n"}
  IN  IF nls = {} THEN SubSeq(s, p, Len(s))
      ELSE SubSeq(s, p, (CHOOSE j \in nls : \A k \in nls : j <= k) - 1)

\* line.match(/b\/(.*)/)[1], for a line that contains "b/": the text after
\* the leftmost "b/", up to the first character that . does not match
afterFirstB(line) ==
  LET at   == CHOOSE i \in 1..(Len(line) - 1) :
                /\ SubSeq(line, i, i + 1) = "b/"
                /\ \A j \in 1..(i - 1) : SubSeq(line, j, j + 1) # "b/"
      stop == {j \in (at + 2)..Len(line) : CharAt(line, j) \in LineTerminators}
  IN  IF stop = {} THEN SubSeq(line, at + 2, Len(line))
      ELSE SubSeq(line, at + 2, (CHOOSE j \in stop : \A k \in stop : j <= k) - 1)

\* the filesChanged array built by the loop of generateBodyFromDiff
filesChanged(diff) ==
  LET hs  == {p \in SplitStarts(diff) :
                LET line == LineAt(diff, p)
                IN  startsWith(line, "diff --git") /\ includes(line, "b/")}
      nth(k) == CHOOSE p \in hs : Cardinality({q \in hs : q < p}) = k - 1
  IN  [k \in 1..Cardinality(hs) |-> afterFirstB(LineAt(diff, nth(k)))]

\* files.map(f => `- ${f}`).join('\n')
RECURSIVE bullets(_)
bullets(files) ==
  IF Len(files) = 0 THEN ""
  ELSE IF Len(files) = 1 THEN "- " \o files[1]
  ELSE "- " \o files[1] \o "\n" \o bullets(Tail(files))

\* variant: every file is listed
bodyOfFiles_AllFiles(files) ==
  IF Len(files) = 0 THEN "Update implementation"
  ELSE IF Len(files) = 1 THEN "Update " \o files[1]
  ELSE "Update multiple files:\n" \o bullets(files)

bodyOfFiles(files) ==
  IF Len(files) = 0 THEN "Update implementation"
  ELSE IF Len(files) = 1 THEN "Update " \o files[1]
  ELSE "Update multiple files:\n"
         \o bullets(SubSeq(files, 1, Min(BODY_FILES_MAX, Len(files))))

generateBodyFromDiff(diff) == bodyOfFiles(filesChanged(diff))

\* variant: the message is not cut
fallbackCommitGeneration_NoCut(rawMessage, diff) ==
  LET cleanMessage == trim(rawMessage)
      type == detectCommitType(cleanMessage, diff)
  IN  [title |-> type \o ": " \o toLowerCase(cleanMessage),
       body  |-> generateBodyFromDiff(diff)]

\* variant: the message is not trimmed
fallbackCommitGeneration_NoTrim(rawMessage, diff) ==
  LET type == detectCommitType(rawMessage, diff)
  IN  [title |-> type \o ": " \o substring0(toLowerCase(rawMessage), TITLE_CUT),
       body  |-> generateBodyFromDiff(diff)]

fallbackCommitGeneration(rawMessage, diff) ==
  LET cleanMessage == trim(rawMessage)
      type == detectCommitType(cleanMessage, diff)
  IN  [title |-> type \o ": " \o substring0(toLowerCase(cleanMessage), TITLE_CUT),
       body  |-> generateBodyFromDiff(diff)]

(***************************************************************************)
(* Inputs of the model: command lines, environments, staged diffs, remote  *)
(* payloads and prompt inputs.                                             *)
(***************************************************************************)
RECURSIVE Rep(_, _)
Rep(s, n) ==
  IF n = 0 THEN ""
  ELSE LET h == Rep(s, n \div 2)
       IN  IF n % 2 = 0 THEN h \o h ELSE h \o h \o s

Messages == {"login bug fix aur validation add kiya", "  Fix BUG in login ", "isse bara number"}

\* process.argv.slice(3): the arguments after `commit`
Argvs ==
  {<<>>, <<"--amend", "--no-edit">>, <<"-m">>,
   <<"-a", "--message", "isse bara number">>}
    \cup {<<"-m", m>> : m \in Messages}

\* args.findIndex(arg => arg === '-m' || arg === '--message'), counted from
\* 1; 0 when there is no such argument
messageIndex(args) ==
  LET hits == {i \in 1..Len(args) : args[i] \in {"-m", "--message"}}
  IN  IF hits = {} THEN 0 ELSE CHOOSE i \in hits : \A j \in hits : i <= j

\* args[messageIndex + 1]; "" when it is undefined
messageArg(args) ==
  IF messageIndex(args) + 1 <= Len(args) THEN args[messageIndex(args) + 1] ELSE ""

\* variant: the arguments are dropped
passthroughArgs_CommitOnly(args) == <<"commit">>

\* ['commit', ...args]
passthroughArgs(args) == <<"commit">> \o args

\* whether LINGO_API_URL and LINGO_API_KEY are set to a non-empty value
Envs == [url : BOOLEAN, key : BOOLEAN]

SmallDiff ==
  "diff --git a/src/app.js b/src/app.js\n--- a/src/app.js\n+++ b/src/app.js\n"
    \o "@@ -1,2 +1,4 @@\n ctx\n+one\n+two\n+three\n-old\n"
SpecDiff ==
  "diff --git a/src/app.spec.js b/src/app.spec.js\n+it()\n"
    \o "diff --git a/src/app.js b/src/app.js\n+x\n"
\* a diff longer than the payload budget, whose second file header lies
\* beyond the budget
LongDiff ==
  "diff --git a/src/app.js b/src/app.js\n+" \o Rep("x", PadLen)
    \o "\ndiff --git a/notes.md b/notes.md\n+y\n"

StagedDiffs == {"", " \n", SmallDiff, SpecDiff, LongDiff}

GoodTitle == "fix: correct login validation logic"
GoodBody  == "- add required field checks"
LongTitle == "feat: " \o Rep("a", TITLE_MAX)

Field(v) == [present |-> TRUE, val |-> v]
NoField  == [present |-> FALSE, val |-> ""]

\* the values response.json() can resolve to: null, or an object whose
\* title and body are absent or strings
Payloads ==
  { [isNull |-> TRUE,  title |-> NoField,            body |-> NoField],
    [isNull |-> FALSE, title |-> Field(GoodTitle),   body |-> Field(GoodBody)],
    [isNull |-> FALSE, title |-> Field(GoodTitle),   body |-> Field("")],
    [isNull |-> FALSE, title |-> Field(GoodTitle),   body |-> NoField],
    [isNull |-> FALSE, title |-> NoField,            body |-> Field(GoodBody)],
    [isNull |-> FALSE, title |-> Field(""),          body |-> Field(GoodBody)],
    [isNull |-> FALSE, title |-> Field("foo: bar"),  body |-> Field(GoodBody)],
    [isNull |-> FALSE, title |-> Field("update login"), body |-> Field(GoodBody)],
    [isNull |-> FALSE, title |-> Field("add login validation"),
                       body |-> Field(GoodBody)],
    [isNull |-> FALSE, title |-> Field(LongTitle),   body |-> Field(GoodBody)] }

TitleInputs == {"", "fix: edited title", LongTitle}
BodyInputs  == {"", "edited body"}

ExitCodes == {0, 1, 128}
EXIT_OK == 0
EXIT_ERROR == 1
\* variant: a cancel is reported as an error
EXIT_CANCEL_AsError == EXIT_ERROR
EXIT_CANCEL == 0
RUNNING == -1

NoResult == [title |-> "", body |-> ""]
NoRequest == [rawMessage |-> "", diff |-> ""]
NoData == [isNull |-> TRUE, title |-> NoField, body |-> NoField]

(***************************************************************************)
(* generateConventionalCommit (lingo.js): the decisions of its steps.      *)
(* A step ends in an outcome: it returns a value to the caller ("return"), *)
(* lets an error leave the function ("throw"), or starts the request       *)
(* again ("retry").                                                        *)
(***************************************************************************)
\* variant: only the endpoint is checked
configMissing_UrlOnly(e) == ~e.url

\* !apiUrl || !apiKey
configMissing(e) == ~e.url \/ ~e.key

\* variant: the end of the diff is kept
payload_Tail(message, d) ==
  [rawMessage |-> message,
   diff |-> SubSeq(d, IF Len(d) > DIFF_LIMIT THEN Len(d) - DIFF_LIMIT + 1 ELSE 1,
                   Len(d))]

\* the request body handed to fetch
payload(message, d) == [rawMessage |-> message, diff |-> substring0(d, DIFF_LIMIT)]

\* the branch taken when the environment is not configured
onConfigMissing(message, d) ==
  [kind |-> "return", value |-> fallbackCommitGeneration(message, d),
   logs |-> {"warnConfig"}, fallback |-> TRUE]

\* variant: a parse error leaves the function
onCatch_Rethrow(errorName, message, d) ==
  IF errorName = "SyntaxError"
  THEN [kind |-> "throw", value |-> NoResult, logs |-> {}, fallback |-> FALSE]
  ELSE [kind |-> "return", value |-> fallbackCommitGeneration(message, d),
        logs |-> {IF errorName = "AbortError" THEN "warnTimeout" ELSE "warnApi"},
        fallback |-> TRUE]

\* variant: the fallback is given the diff as it was sent
onCatch_TruncatedDiff(errorName, message, d) ==
  [kind |-> "return",
   value |-> fallbackCommitGeneration(message, substring0(d, DIFF_LIMIT)),
   logs |-> {IF errorName = "AbortError" THEN "warnTimeout" ELSE "warnApi"},
   fallback |-> TRUE]

\* variant: a failed request is tried again
onCatch_Retry(errorName, message, d) ==
  [kind |-> "retry", value |-> NoResult,
   logs |-> {IF errorName = "AbortError" THEN "warnTimeout" ELSE "warnApi"},
   fallback |-> FALSE]

\* variant: after a timeout the fallback is given the diff as it was sent
onCatch_TimeoutTruncates(errorName, message, d) ==
  [kind |-> "return",
   value |-> fallbackCommitGeneration(message,
               IF errorName = "AbortError" THEN substring0(d, DIFF_LIMIT) ELSE d),
   logs |-> {IF errorName = "AbortError" THEN "warnTimeout" ELSE "warnApi"},
   fallback |-> TRUE]

\* the catch block: the error's name selects the warning, the fallback is
\* returned
onCatch(errorName, message, d) ==
  [kind |-> "return", value |-> fallbackCommitGeneration(message, d),
   logs |-> {IF errorName = "AbortError" THEN "warnTimeout" ELSE "warnApi"},
   fallback |-> TRUE]

\* variant: the fields only have to be present
invalidFormat_PresenceOnly(data) ==
  ~data.title.present \/ ~data.body.present

\* !data.title || !data.body, for a payload that is an object
invalidFormat(data) ==
  \/ ~data.title.present \/ data.title.val = ""
  \/ ~data.body.present \/ data.body.val = ""

\* variant: the response is never used
onData_AlwaysFallback(data, message, d) == onCatch("Error", message, d)

\* what the try block does with the value response.json() resolved to
onData(data, message, d) ==
  IF data.isNull THEN onCatch("TypeError", message, d)
  ELSE IF invalidFormat(data) THEN onCatch("Error", message, d)
  ELSE [kind |-> "return",
        value |-> [title |-> data.title.val, body |-> data.body.val],
        logs |-> {}, fallback |-> FALSE]

\* variant: the signal is not handed to fetch
abortEffect_NoSignal(req) == req

\* what controller.abort() does to the request that was given its signal
abortEffect(req) == IF req = "inflight" THEN "aborted" ELSE req

(***************************************************************************)
(* The commit action (index.js): the decisions of its steps.               *)
(***************************************************************************)
\* variant: only the cancel option is recognised
selectCancelled_ValueOnly(choice) == choice = "cancel"

\* clack.isCancel(action) || action === 'cancel'
selectCancelled(choice) == choice = "isCancel" \/ choice = "cancel"

\* variant: the result of a text prompt is not checked
promptCancelled_Unchecked(input) == FALSE

\* clack.isCancel(value) for the value a text prompt resolved to
promptCancelled(input) == input.cancel

\* variant: the callback only requires a title
validateTitle_RequiredOnly(value) ==
  IF value = "" THEN "Title is required" ELSE ""

\* the validate callback of the title prompt; "" when it returns undefined
validateTitle(value) ==
  IF value = "" THEN "Title is required"
  ELSE IF Len(value) > TITLE_MAX THEN "Title should be under 72 characters"
  ELSE ""

\* variant: only the empty text counts as an empty diff
emptyDiff_NoTrim(d) == d = ""

\* !diff || diff.trim().length === 0
emptyDiff(d) == d = "" \/ Len(trim(d)) = 0

(***************************************************************************)
(* State.                                                                  *)
(***************************************************************************)
VARIABLES
  argv,            \* the arguments after `commit`
  env,             \* the environment configuration
  pc,              \* the await the commit action is suspended at
  exitCode,        \* the exit status of the process, RUNNING until it ends
  confirm,         \* the state of the confirmation: None, Previewing, ...
  rawMessage,      \* const rawMessage
  hasStaged,       \* what hasStagedFiles answered
  diff,            \* const diff
  result,          \* const result, the previewed candidate
  finalTitle,      \* let finalTitle
  finalBody,       \* let finalBody
  userChoice,      \* what the user selected at the preview
  userCancel,      \* the prompt the user cancelled at: none, select, title, body
  titleSubmitted,  \* the title prompt accepted an input
  bodySubmitted,   \* the body prompt accepted an input
  promptError,     \* the message the title prompt displays
  typed,           \* the last line of input each text prompt received
  logs,            \* the kinds of message written so far
  genPc,           \* the await generateConventionalCommit is suspended at
  request,         \* the state of the remote request
  timer,           \* the timeout timer: none, armed, cleared, fired
  clock,           \* milliseconds since the timer was armed
  sent,            \* the payload of the request
  failure,         \* how the remote path failed, "none" if it did not
  data,            \* const data, the value response.json() resolved to
  committed,       \* the arguments of commitWithMessage
  commitResult,    \* how git.commit ended
  diffResult,      \* how git.diff ended
  passed,          \* the arguments passthroughToGit was called with
  statusCalls, diffCalls, genCalls, fetches, fallbackCalls, commitCalls,
  passthroughCalls

inputVars == <<argv, env>>
flowVars  == <<pc, exitCode, confirm, rawMessage, hasStaged, diff, result,
               finalTitle, finalBody, userChoice, userCancel, titleSubmitted,
               bodySubmitted, promptError, typed, logs>>
genVars   == <<genPc, request, timer, clock, sent, failure, data>>
gitVars   == <<committed, commitResult, diffResult, passed>>
countVars == <<statusCalls, diffCalls, genCalls, fetches, fallbackCalls,
               commitCalls, passthroughCalls>>
vars == <<inputVars, flowVars, genVars, gitVars, countVars>>

Init ==
  /\ argv \in Argvs
  /\ env \in Envs
  /\ pc = "start"
  /\ exitCode = RUNNING
  /\ confirm = "None"
  /\ rawMessage = ""
  /\ hasStaged = "unknown"
  /\ diff = ""
  /\ result = NoResult
  /\ finalTitle = ""
  /\ finalBody = ""
  /\ userChoice = "none"
  /\ userCancel = "none"
  /\ titleSubmitted = FALSE
  /\ bodySubmitted = FALSE
  /\ promptError = ""
  /\ typed = NoResult
  /\ logs = {}
  /\ genPc = "idle"
  /\ request = "none"
  /\ timer = "none"
  /\ clock = 0
  /\ sent = NoRequest
  /\ failure = "none"
  /\ data = NoData
  /\ committed = NoResult
  /\ commitResult = "none"
  /\ diffResult = "none"
  /\ passed = <<>>
  /\ statusCalls = 0
  /\ diffCalls = 0
  /\ genCalls = 0
  /\ fetches = 0
  /\ fallbackCalls = 0
  /\ commitCalls = 0
  /\ passthroughCalls = 0

\* process.exit(code)
Exit(code) == pc' = "exited" /\ exitCode' = code

\* variant: the catch block ends the process with status 0
FlowCatch_ExitsZero ==
  /\ logs' = logs \cup {"error"}
  /\ Exit(EXIT_OK)

\* the catch block of the commit action
FlowCatch ==
  /\ logs' = logs \cup {"error"}
  /\ Exit(EXIT_ERROR)

\* variant: the commit is always given the title of the candidate
CallCommit_CandidateTitle(title, body) ==
  /\ commitCalls' = commitCalls + 1
  /\ committed' = [title |-> result.title, body |-> body]
  /\ pc' = "commitWithMessage"
  /\ exitCode' = exitCode

\* await commitWithMessage(finalTitle, finalBody), up to its await of git.commit
CallCommit(title, body) ==
  /\ commitCalls' = commitCalls + 1
  /\ committed' = [title |-> title, body |-> body]
  /\ pc' = "commitWithMessage"
  /\ exitCode' = exitCode

(***************************************************************************)
(* The commit action up to the call of generateConventionalCommit.         *)
(***************************************************************************)
\* the action starts: no -m flag, a flag without a message, or the check of
\* the staged files
CommitAction ==
  /\ pc = "start"
  /\ IF messageIndex(argv) = 0
     THEN /\ passthroughCalls' = passthroughCalls + 1
          /\ passed' = passthroughArgs(argv)
          /\ pc' = "passthroughToGit"
          /\ UNCHANGED <<exitCode, rawMessage, logs, statusCalls>>
     ELSE IF messageArg(argv) = ""
     THEN /\ logs' = logs \cup {"needMessage"}
          /\ Exit(EXIT_ERROR)
          /\ UNCHANGED <<rawMessage, statusCalls, passthroughCalls, passed>>
     ELSE /\ rawMessage' = messageArg(argv)
          /\ statusCalls' = statusCalls + 1
          /\ pc' = "hasStagedFiles"
          /\ UNCHANGED <<exitCode, logs, passthroughCalls, passed>>
  /\ UNCHANGED <<inputVars, confirm, hasStaged, diff, result, finalTitle,
                 finalBody, userChoice, userCancel, titleSubmitted, bodySubmitted,
                 promptError, typed, genVars, committed, commitResult, diffResult,
                 diffCalls,
                 genCalls, fetches,
                 fallbackCalls, commitCalls>>

\* the git child process of passthroughToGit closes
PassthroughClose(code) ==
  /\ pc = "passthroughToGit"
  /\ IF code = 0 THEN pc' = "returned" /\ exitCode' = exitCode
                 ELSE Exit(code)
  /\ UNCHANGED <<inputVars, confirm, rawMessage, hasStaged, diff, result,
                 finalTitle, finalBody, userChoice, userCancel, titleSubmitted,
                 bodySubmitted, promptError, typed, logs, genVars, gitVars, countVars>>

\* variant: the diff is read whatever hasStagedFiles answered
StatusReturns_IgnoresAnswer(answer) ==
  /\ pc = "hasStagedFiles"
  /\ hasStaged' = answer
  /\ CASE answer = "throw" ->
            /\ FlowCatch
            /\ UNCHANGED diffCalls
       [] answer \in {"false", "true"} ->
            /\ diffCalls' = diffCalls + 1
            /\ pc' = "getStagedDiff"
            /\ UNCHANGED <<exitCode, logs>>
  /\ UNCHANGED <<inputVars, confirm, rawMessage, diff, result, finalTitle,
                 finalBody, userChoice, userCancel, titleSubmitted, bodySubmitted,
                 promptError, typed, genVars, gitVars, statusCalls, genCalls,
                 fetches, fallbackCalls, commitCalls, passthroughCalls>>

\* hasStagedFiles settles: true, false, or an error
StatusReturns(answer) ==
  /\ pc = "hasStagedFiles"
  /\ hasStaged' = answer
  /\ CASE answer = "throw" ->
            /\ FlowCatch
            /\ UNCHANGED diffCalls
       [] answer = "false" ->
            /\ logs' = logs \cup {"noStaged"}
            /\ Exit(EXIT_ERROR)
            /\ UNCHANGED diffCalls
       [] answer = "true" ->
            /\ diffCalls' = diffCalls + 1
            /\ pc' = "getStagedDiff"
            /\ UNCHANGED <<exitCode, logs>>
  /\ UNCHANGED <<inputVars, confirm, rawMessage, diff, result, finalTitle,
                 finalBody, userChoice, userCancel, titleSubmitted, bodySubmitted,
                 promptError, typed, genVars, gitVars, statusCalls, genCalls,
                 fetches, fallbackCalls, commitCalls, passthroughCalls>>

(***************************************************************************)
(* generateConventionalCommit and the continuation of its caller.          *)
(***************************************************************************)
\* the try block up to the await of fetch: the timer is armed and the
\* request starts
StartRequest(message, d) ==
  /\ genPc' = "fetch"
  /\ request' = "inflight"
  /\ timer' = "armed"
  /\ clock' = 0
  /\ fetches' = fetches + 1
  /\ sent' = payload(message, d)

\* a step of generateConventionalCommit ends in `outcome`; tmr and req are
\* the timer and the request as the step leaves them.  When the function
\* returns, the commit action stops the spinner, prints the preview and
\* shows the selection; when it throws, the catch block of the action runs.
Deliver(outcome, tmr, req) ==
  \E o \in {outcome} :
    CASE o.kind = "return" ->
           /\ result' = o.value
           /\ genPc' = "returned"
           /\ pc' = "select"
           /\ confirm' = "Previewing"
           /\ logs' = logs \cup o.logs
           /\ fallbackCalls' = fallbackCalls + (IF o.fallback THEN 1 ELSE 0)
           /\ timer' = tmr
           /\ request' = req
           /\ UNCHANGED <<exitCode, clock, fetches, sent>>
      [] o.kind = "throw" ->
           /\ genPc' = "threw"
           /\ logs' = logs \cup o.logs \cup {"error"}
           /\ Exit(EXIT_ERROR)
           /\ fallbackCalls' = fallbackCalls + (IF o.fallback THEN 1 ELSE 0)
           /\ timer' = tmr
           /\ request' = req
           /\ UNCHANGED <<result, confirm, clock, fetches, sent>>
      [] o.kind = "retry" ->
           /\ StartRequest(rawMessage, diff)
           /\ logs' = logs \cup o.logs
           /\ UNCHANGED <<result, pc, confirm, exitCode, fallbackCalls>>

\* getStagedDiff settles; with a non-empty diff the action calls
\* generateConventionalCommit, which runs up to its first await
DiffReturns(answer) ==
  /\ pc = "getStagedDiff"
  /\ diffResult' = IF answer.threw THEN "failed" ELSE "read"
  /\ IF answer.threw
     THEN /\ FlowCatch
          /\ UNCHANGED <<diff, result, confirm, genVars, genCalls, fetches,
                         fallbackCalls>>
     ELSE /\ diff' = answer.text
          /\ IF emptyDiff(answer.text)
             THEN /\ logs' = logs \cup {"emptyDiff"}
                  /\ Exit(EXIT_ERROR)
                  /\ UNCHANGED <<result, confirm, genVars, genCalls, fetches,
                                 fallbackCalls>>
             ELSE /\ genCalls' = genCalls + 1
                  /\ IF configMissing(env)
                     THEN /\ Deliver(onConfigMissing(rawMessage, answer.text),
                                     timer, request)
                          /\ failure' = "config"
                          /\ UNCHANGED data
                     ELSE /\ StartRequest(rawMessage, answer.text)
                          /\ pc' = "generateConventionalCommit"
                          /\ UNCHANGED <<result, confirm, exitCode, logs,
                                         fallbackCalls, failure, data>>
  /\ UNCHANGED <<inputVars, rawMessage, hasStaged, finalTitle, finalBody,
                 userChoice, userCancel, titleSubmitted, bodySubmitted, promptError, typed,
                 committed, commitResult, passed, statusCalls, diffCalls, commitCalls,
                 passthroughCalls>>

\* the variables no step of generateConventionalCommit touches
GenLocals ==
  UNCHANGED <<inputVars, rawMessage, hasStaged, diff, finalTitle, finalBody,
              userChoice, userCancel, titleSubmitted, bodySubmitted,
              promptError, typed, gitVars, statusCalls, diffCalls, genCalls,
              commitCalls, passthroughCalls>>

\* the same, for the steps that do not read the response body
GenFrame == GenLocals /\ UNCHANGED data

\* fetch rejects with a transport error
FetchRejects ==
  /\ genPc = "fetch" /\ request = "inflight"
  /\ Deliver(onCatch("TypeError", rawMessage, diff), timer, "failed")
  /\ failure' = "transport"
  /\ GenFrame

\* fetch resolves with a response: the timer is cleared, and a non-success
\* status is thrown
FetchResolves(ok) ==
  /\ genPc = "fetch" /\ request = "inflight"
  /\ IF ok
     THEN /\ genPc' = "json"
          /\ request' = "body"
          /\ timer' = "cleared"
          /\ UNCHANGED <<pc, exitCode, confirm, result, logs, clock, sent,
                         fetches, fallbackCalls, failure>>
     ELSE /\ Deliver(onCatch("Error", rawMessage, diff), "cleared", "answered")
          /\ failure' = "status"
  /\ GenFrame

\* response.json() rejects: the body is not JSON, or the connection fails
JsonRejects(errorName) ==
  /\ genPc = "json"
  /\ Deliver(onCatch(errorName, rawMessage, diff), timer, "answered")
  /\ failure' = IF errorName = "SyntaxError" THEN "notJson" ELSE "bodyError"
  /\ GenFrame

\* response.json() resolves to a value
JsonResolves(value) ==
  /\ genPc = "json"
  /\ data' = value
  /\ Deliver(onData(value, rawMessage, diff), timer, "answered")
  /\ failure' = IF value.isNull THEN "null"
                ELSE IF ~value.title.present \/ ~value.body.present
                THEN "missingField"
                ELSE IF value.title.val = "" \/ value.body.val = ""
                THEN "emptyField"
                ELSE "none"
  /\ GenLocals

\* the timer callback runs controller.abort(); an aborted fetch rejects with
\* an AbortError
TimerFires ==
  /\ timer = "armed" /\ clock >= TIMEOUT_MS
  /\ pc # "exited"
  /\ IF genPc = "fetch" /\ abortEffect(request) = "aborted"
     THEN /\ Deliver(onCatch("AbortError", rawMessage, diff), "fired",
                     abortEffect(request))
          /\ failure' = "timeout"
     ELSE /\ timer' = "fired"
          /\ request' = abortEffect(request)
          /\ UNCHANGED <<pc, exitCode, confirm, result, logs, genPc, clock,
                         sent, fetches, fallbackCalls, failure>>
  /\ GenFrame

\* the answer to an aborted request arrives and is dropped
LateResponse ==
  /\ request = "aborted"
  /\ pc # "exited"
  /\ request' = "dropped"
  /\ UNCHANGED <<inputVars, flowVars, genPc, timer, clock, sent, failure, data,
                 gitVars, countVars>>

\* time passes while the request or its timer is pending; an armed timer
\* fires no later than its deadline
Tick ==
  /\ pc # "exited"
  /\ genPc \in {"fetch", "json"} \/ timer = "armed"
  /\ clock < (IF timer = "armed" THEN TIMEOUT_MS ELSE MaxClock)
  /\ clock' = Min(clock + ClockStep,
                  IF timer = "armed" THEN TIMEOUT_MS ELSE MaxClock)
  /\ UNCHANGED <<inputVars, flowVars, genPc, request, timer, sent, failure, data,
                 gitVars, countVars>>

(***************************************************************************)
(* The confirmation: selection, title prompt, body prompt, commit.         *)
(***************************************************************************)
Choices == {"accept", "edit", "cancel", "isCancel"}

\* what a text prompt can be answered with: a cancel, or a text
PromptInputs(texts) ==
  {[cancel |-> TRUE, text |-> ""]} \cup {[cancel |-> FALSE, text |-> t] : t \in texts}

\* variant: the cancel is logged but the process stays
Cancel_NoExit ==
  /\ confirm' = "Cancelled"
  /\ logs' = logs \cup {"cancelled"}
  /\ UNCHANGED <<pc, exitCode>>

\* the log and exit of a cancelled prompt
Cancel ==
  /\ confirm' = "Cancelled"
  /\ logs' = logs \cup {"cancelled"}
  /\ Exit(EXIT_CANCEL)

ConfirmFrame ==
  UNCHANGED <<inputVars, rawMessage, hasStaged, diff, result, genVars,
              commitResult, diffResult, passed, statusCalls, diffCalls, genCalls,
              fetches,
              fallbackCalls, passthroughCalls>>

\* clack.select resolves
Select(choice) ==
  /\ pc = "select"
  /\ userChoice' = choice
  /\ userCancel' = IF choice \in {"cancel", "isCancel"} THEN "select" ELSE userCancel
  /\ IF selectCancelled(choice)
     THEN /\ Cancel
          /\ UNCHANGED <<finalTitle, finalBody, committed, commitCalls>>
     ELSE IF choice = "edit"
     THEN /\ confirm' = "Editing"
          /\ pc' = "title"
          /\ finalTitle' = result.title
          /\ finalBody' = result.body
          /\ UNCHANGED <<exitCode, logs, committed, commitCalls>>
     ELSE /\ confirm' = "Accepted"
          /\ finalTitle' = result.title
          /\ finalBody' = result.body
          /\ CallCommit(result.title, result.body)
          /\ UNCHANGED logs
  /\ UNCHANGED <<titleSubmitted, bodySubmitted, promptError, typed>>
  /\ ConfirmFrame

\* the value a cancelled text prompt resolves to, as a text
CancelSymbol == "Symbol(clack:cancel)"

\* the title prompt receives a cancel or a line of input; an input the
\* validate callback objects to is not accepted and the prompt stays open
TitlePrompt(input) ==
  /\ pc = "title"
  /\ userCancel' = IF input.cancel THEN "title" ELSE userCancel
  /\ typed' = IF input.cancel THEN typed ELSE [typed EXCEPT !.title = input.text]
  /\ IF ~input.cancel /\ validateTitle(input.text) # ""
     THEN /\ promptError' = validateTitle(input.text)
          /\ UNCHANGED <<pc, exitCode, confirm, logs, finalTitle,
                         titleSubmitted>>
     ELSE /\ finalTitle' = IF input.cancel THEN CancelSymbol ELSE input.text
          /\ titleSubmitted' = ~input.cancel
          /\ promptError' = ""
          /\ IF promptCancelled(input)
             THEN Cancel
             ELSE /\ pc' = "body"
                  /\ UNCHANGED <<exitCode, confirm, logs>>
  /\ UNCHANGED <<userChoice, finalBody, bodySubmitted, committed, commitCalls>>
  /\ ConfirmFrame

\* variant: the prompt has no default value
BodyPrompt_NoDefault(input) ==
  /\ pc = "body"
  /\ userCancel' = IF input.cancel THEN "body" ELSE userCancel
  /\ typed' = IF input.cancel THEN typed ELSE [typed EXCEPT !.body = input.text]
  /\ finalBody' = IF input.cancel THEN CancelSymbol ELSE input.text
  /\ bodySubmitted' = ~input.cancel
  /\ IF promptCancelled(input)
     THEN /\ Cancel
          /\ UNCHANGED <<committed, commitCalls>>
     ELSE /\ confirm' = "Accepted"
          /\ CallCommit(finalTitle, finalBody')
          /\ UNCHANGED logs
  /\ UNCHANGED <<userChoice, finalTitle, titleSubmitted, promptError>>
  /\ ConfirmFrame

\* the body prompt receives a cancel or a line of input; an empty input
\* resolves to the default value
BodyPrompt(input) ==
  /\ pc = "body"
  /\ userCancel' = IF input.cancel THEN "body" ELSE userCancel
  /\ typed' = IF input.cancel THEN typed ELSE [typed EXCEPT !.body = input.text]
  /\ finalBody' = IF input.cancel THEN CancelSymbol
                  ELSE IF input.text = "" THEN result.body
                  ELSE input.text
  /\ bodySubmitted' = ~input.cancel
  /\ IF promptCancelled(input)
     THEN /\ Cancel
          /\ UNCHANGED <<committed, commitCalls>>
     ELSE /\ confirm' = "Accepted"
          /\ CallCommit(finalTitle, finalBody')
          /\ UNCHANGED logs
  /\ UNCHANGED <<userChoice, finalTitle, titleSubmitted, promptError>>
  /\ ConfirmFrame

\* git.commit settles: the success message, or the catch block
CommitReturns(ok) ==
  /\ pc = "commitWithMessage"
  /\ commitResult' = IF ok THEN "created" ELSE "failed"
  /\ IF ok
     THEN /\ logs' = logs \cup {"success"}
          /\ pc' = "returned"
          /\ UNCHANGED exitCode
     ELSE FlowCatch
  /\ UNCHANGED <<inputVars, confirm, rawMessage, hasStaged, diff, result,
                 finalTitle, finalBody, userChoice, userCancel, titleSubmitted,
                 bodySubmitted, promptError, typed, genVars, committed, diffResult,
                 passed,
                 countVars>>

\* the action has returned and no timer is pending: the process ends
ProcessEnds ==
  /\ pc = "returned"
  /\ timer # "armed"
  /\ Exit(EXIT_OK)
  /\ UNCHANGED <<inputVars, confirm, rawMessage, hasStaged, diff, result,
                 finalTitle, finalBody, userChoice, userCancel, titleSubmitted,
                 bodySubmitted, promptError, typed, logs, genVars, gitVars,
                 countVars>>

Next ==
  \/ CommitAction
  \/ \E code \in ExitCodes : PassthroughClose(code)
  \/ \E answer \in {"true", "false", "throw"} : StatusReturns(answer)
  \/ \E answer \in {[threw |-> TRUE, text |-> ""]}
                     \cup {[threw |-> FALSE, text |-> d] : d \in StagedDiffs} :
        DiffReturns(answer)
  \/ FetchRejects
  \/ \E ok \in BOOLEAN : FetchResolves(ok)
  \/ \E errorName \in {"SyntaxError", "TypeError"} : JsonRejects(errorName)
  \/ \E value \in Payloads : JsonResolves(value)
  \/ TimerFires
  \/ LateResponse
  \/ Tick
  \/ \E choice \in Choices : Select(choice)
  \/ \E input \in PromptInputs(TitleInputs) : TitlePrompt(input)
  \/ \E input \in PromptInputs(BodyInputs) : BodyPrompt(input)
  \/ \E ok \in BOOLEAN : CommitReturns(ok)
  \/ ProcessEnds

Spec == Init /\ [][Next]_vars

(***************************************************************************)
(* The fallback classifier on its own: fallbackCommitGeneration applied    *)
(* to a message and a diff.                                                *)
(***************************************************************************)
\* a message of more than 72 characters whose only keyword lies beyond the
\* sixtieth
LongMessage ==
  "Update the login form so that validation errors are shown inline and add retry"

ClassifyMessages ==
  Messages \cup
  { LongMessage, "fixed docs tests adding", "UPDATE README", "optimize speed",
    "   ", "lint format", "cleanup old code", "write spec for parser",
    "Rewrite Auth", "added new dashboard", "fix bug in login",
    "refactor cleanup module", "format the readme comment", "speed up test" }

\* a change of a markdown file
DocsDiff == "diff --git a/docs/guide.md b/docs/guide.md\n+more\n"
\* as many removed lines as added lines
BalancedDiff ==
  "diff --git a/src/app.js b/src/app.js\n--- a/src/app.js\n+++ b/src/app.js\n"
    \o "+a\n+b\n+c\n-a\n-b\n-c\n"
\* a file below lib/
LibDiff == "diff --git a/lib/util.js b/lib/util.js\n+x\n+y\n+z\n"
\* a source file whose added line names a markdown file
ContentDiff == "diff --git a/src/app.js b/src/app.js\n+see README.md\n"
\* six files
ManyDiff ==
  "diff --git a/f1.js b/f1.js\n+1\ndiff --git a/f2.js b/f2.js\n+2\n"
    \o "diff --git a/f3.js b/f3.js\n+3\ndiff --git a/f4.js b/f4.js\n+4\n"
    \o "diff --git a/f5.js b/f5.js\n+5\ndiff --git a/f6.js b/f6.js\n+6\n"

\* a markdown file whose added line names a test directory
ReadmeTestDiff == "diff --git a/README.md b/README.md\n+run test/all.sh\n"
\* a markdown file below a test directory
BothDiff == "diff --git a/test/notes.md b/test/notes.md\n+x\n"
\* ten added lines, one of them empty, and two removed lines
TenTwoDiff ==
  "diff --git a/src/app.js b/src/app.js\n--- a/src/app.js\n+++ b/src/app.js\n"
    \o "+1\n+2\n+3\n+4\n+\n+6\n+7\n+8\n+9\n+10\n-1\n-2\n"
\* two added lines and one removed line
TwiceDiff ==
  "diff --git a/src/app.js b/src/app.js\n--- a/src/app.js\n+++ b/src/app.js\n"
    \o "+a\n+b\n-a\n"
\* a change of mode: no added and no removed line
HeaderOnlyDiff == "diff --git a/run.sh b/run.sh\nold mode 100644\nnew mode 100755\n"
\* three added lines and two removed lines whose text starts with a dash
DashDiff ==
  "diff --git a/src/list.txt b/src/list.txt\n--- a/src/list.txt\n"
    \o "+++ b/src/list.txt\n-- item one\n-- item two\n+one\n+two\n+three\n"

ClassifyDiffs ==
  { SmallDiff, SpecDiff, LongDiff, DocsDiff, BalancedDiff, LibDiff,
    ContentDiff, ManyDiff, "", ReadmeTestDiff, BothDiff, TenTwoDiff,
    TwiceDiff, HeaderOnlyDiff, DashDiff }

\* the state in which fallbackCommitGeneration is entered
ClassifyInit ==
  /\ rawMessage \in ClassifyMessages
  /\ diff \in ClassifyDiffs
  /\ pc = "classify"
  /\ argv = <<"-m", rawMessage>>
  /\ env = [url |-> FALSE, key |-> FALSE]
  /\ exitCode = RUNNING
  /\ confirm = "None"
  /\ hasStaged = "true"
  /\ result = NoResult
  /\ finalTitle = ""
  /\ finalBody = ""
  /\ userChoice = "none"
  /\ userCancel = "none"
  /\ titleSubmitted = FALSE
  /\ bodySubmitted = FALSE
  /\ promptError = ""
  /\ typed = NoResult
  /\ logs = {}
  /\ genPc = "idle"
  /\ request = "none"
  /\ timer = "none"
  /\ clock = 0
  /\ sent = NoRequest
  /\ failure = "none"
  /\ data = NoData
  /\ committed = NoResult
  /\ commitResult = "none"
  /\ diffResult = "none"
  /\ passed = <<>>
  /\ statusCalls = 0
  /\ diffCalls = 0
  /\ genCalls = 0
  /\ fetches = 0
  /\ fallbackCalls = 0
  /\ commitCalls = 0
  /\ passthroughCalls = 0

\* fallbackCommitGeneration(rawMessage, diff) returns
Classify ==
  /\ pc = "classify"
  /\ result' = fallbackCommitGeneration(rawMessage, diff)
  /\ fallbackCalls' = fallbackCalls + 1
  /\ pc' = "classified"
  /\ UNCHANGED <<inputVars, exitCode, confirm, rawMessage, hasStaged, diff,
                 finalTitle, finalBody, userChoice, userCancel, titleSubmitted,
                 bodySubmitted, promptError, typed, logs, genVars, gitVars,
                 statusCalls, diffCalls, genCalls, fetches, commitCalls,
                 passthroughCalls>>

ClassifyNext == Classify

ClassifySpec == ClassifyInit /\ [][ClassifyNext]_vars

(***************************************************************************)
(* Properties.                                                             *)
(***************************************************************************)
\* the user chose Accept, or chose Edit and submitted both prompts
UserAccepted ==
  \/ userChoice = "accept"
  \/ userChoice = "edit" /\ titleSubmitted /\ bodySubmitted

\* the ways the remote path fails
RemoteFailures ==
  {"config", "transport", "status", "timeout", "notJson", "bodyError", "null",
   "missingField"}

\* a title led by an enumerated type, non-empty and within the length limit
Conventional(title) ==
  /\ Len(title) > 0
  /\ Len(title) <= TITLE_MAX
  /\ \E type \in CommitTypes : startsWith(title, type \o ": ")

\* C1: commitWithMessage is invoked at most once in a run, and only after
\* the confirmation reached Accepted: the user chose Accept, or chose Edit
\* and submitted the title and the body.
C1_CommitOnlyWhenAccepted ==
  /\ commitCalls <= 1
  /\ commitCalls >= 1 => (confirm = "Accepted" /\ UserAccepted)

C1_Witness ==
  /\ commitCalls = 1
  /\ userChoice = "edit" /\ titleSubmitted /\ bodySubmitted
  /\ commitResult = "created"

\* C2: when the user cancels at the preview selection, at the title prompt
\* or at the body prompt, commitWithMessage is never invoked in that run.
C2_CancelNeverCommits == userCancel # "none" => commitCalls = 0

C2_Witness ==
  /\ userCancel = "body" /\ titleSubmitted
  /\ pc = "exited" /\ commitCalls = 0

\* C3: generateConventionalCommit is total: whatever way the remote path
\* fails, it returns a {title, body} value and no error reaches its caller.
C3_GenerateTotal ==
  /\ genPc # "threw"
  /\ failure \in RemoteFailures =>
       /\ genPc = "returned"
       /\ DOMAIN result = {"title", "body"}
       /\ result.title # ""

C3_Witness == failure = "notJson" /\ genPc = "returned" /\ pc = "select"

\* C4: whenever the remote path fails, the value generateConventionalCommit
\* returns is the value of the fallback classifier for the same message and
\* the whole diff.
C4_FailureGivesFallback ==
  failure \in RemoteFailures =>
    result = fallbackCommitGeneration(rawMessage, diff)

C4_Witness == failure = "status" /\ Len(diff) > DIFF_LIMIT /\ pc = "select"

\* C5: every message that reaches the preview has an enumerated type and a
\* non-empty title of at most 72 characters; a remote candidate that has not
\* is replaced by the fallback result.
C5_PreviewIsConventional ==
  confirm = "Previewing" => Conventional(result.title)

\* C6: when the endpoint or the key is absent, no request is started and no
\* timer is armed: the call goes straight to the fallback.
C6_NoRequestWithoutConfig ==
  (~env.url \/ ~env.key) =>
    /\ fetches = 0 /\ request = "none" /\ timer = "none" /\ sent = NoRequest
    /\ genCalls > 0 =>
         (genPc = "returned" /\ fallbackCalls = 1 /\ "warnConfig" \in logs)

C6_Witness == env.url /\ ~env.key /\ genCalls = 1 /\ fallbackCalls = 1

\* C7: one call of generateConventionalCommit starts at most one request,
\* which is not retried after a failure, and the commit flow calls
\* generateConventionalCommit at most once.
C7_SingleAttempt == fetches <= 1 /\ genCalls <= 1

C7_Witness == fetches = 1 /\ failure = "transport" /\ pc = "exited"

\* C8: when the timer fires while the request is in flight, the request is
\* aborted and the fallback result is returned; a response arriving
\* afterwards changes nothing of what was returned.
C8_TimeoutAborts ==
  [][ /\ (timer = "armed" /\ timer' = "fired" /\ genPc = "fetch") =>
           /\ request' = "aborted"
           /\ genPc' = "returned"
           /\ result' = fallbackCommitGeneration(rawMessage, diff)
      /\ request \in {"aborted", "dropped"} =>
           (result' = result /\ genPc' = genPc) ]_vars

C8_Witness ==
  /\ request = "dropped" /\ timer = "fired" /\ failure = "timeout"
  /\ genPc = "returned"

\* C9: once the request has started, generateConventionalCommit returns no
\* later than the moment the timer fires, 15 seconds after it was armed,
\* whatever the remote service does.
C9_ReturnsByDeadline == genPc \in {"fetch", "json"} => clock <= TIMEOUT_MS

\* C10: the exit status is 0 when the commit was created and when the user
\* cancelled; it is not 0 when there are no staged changes or the staged
\* diff is empty or only whitespace.
C10_ExitStatus ==
  pc = "exited" =>
    /\ commitResult = "created" => exitCode = 0
    /\ userCancel # "none" => exitCode = 0
    /\ hasStaged = "false" => exitCode # 0
    /\ (diffCalls = 1 /\ Len(trim(diff)) = 0) => exitCode # 0

C10_Witness == pc = "exited" /\ userCancel = "title" /\ exitCode = 0

\* C11: when there are no staged changes, or the staged diff is empty or
\* only white space, the attempt ends before generation: no call of
\* generateConventionalCommit (no request, no fallback), no prompt, no commit.
C11_NothingToClassify ==
  (hasStaged = "false" \/ Len(trim(diff)) = 0) =>
     /\ genCalls = 0 /\ fetches = 0 /\ fallbackCalls = 0
     /\ confirm = "None" /\ userChoice = "none"
     /\ commitCalls = 0

\* the staged diff was read, was only white space, and the attempt ended
C11_Witness == diffCalls = 1 /\ diff = " \n" /\ pc = "exited"

\* the transitions of the confirmation state machine, and its entry
ConfirmTransitions ==
  { <<"None", "Previewing">>,
    <<"Previewing", "Accepted">>, <<"Previewing", "Editing">>,
    <<"Previewing", "Cancelled">>,
    <<"Editing", "Accepted">>, <<"Editing", "Cancelled">> }

\* C12: the confirmation state only changes along Previewing -> Accepted,
\* Previewing -> Editing, Previewing -> Cancelled, Editing -> Accepted and
\* Editing -> Cancelled (after its entry into Previewing): Accepted and
\* Cancelled are never left and Previewing is not entered again.
C12_ConfirmTransitions ==
  [][confirm' # confirm => <<confirm, confirm'>> \in ConfirmTransitions]_vars

\* the edit path was walked to its end: Previewing, Editing, Accepted
C12_Witness == confirm = "Accepted" /\ userChoice = "edit" /\ bodySubmitted

\* C14: on Accept commitWithMessage is given the title and the body of the
\* generated candidate; on Edit it is given the title the title prompt
\* resolved to and the body the body prompt resolved to (the candidate's
\* body when the line was empty); the candidate, once generated, never
\* changes.
C14_CommitArguments ==
  [][ /\ commitCalls' # commitCalls =>
           IF userChoice' = "accept"
           THEN committed' = result
           ELSE /\ committed'.title = typed'.title
                /\ committed'.body = IF typed'.body = "" THEN result.body
                                     ELSE typed'.body
      /\ confirm # "None" => result' = result ]_vars

\* an edit replaced both the title and the body of the candidate
C14_Witness ==
  /\ userChoice = "edit" /\ commitCalls = 1
  /\ committed = [title |-> "fix: edited title", body |-> "edited body"]
  /\ committed.title # result.title /\ committed.body # result.body

\* C15 as stated: an empty replacement title never leads to Accepted, and a
\* replacement title longer than 72 characters does not keep the title
\* prompt open.
C15_LongTitleOnlyWarns ==
  /\ (userChoice = "edit" /\ confirm = "Accepted") => committed.title # ""
  /\ (typed.title # "" /\ Len(typed.title) > TITLE_MAX) => pc # "title"

\* C15, amended: in Editing a replacement title that is empty or longer than
\* 72 characters is rejected: the prompt stays open with the message of the
\* validate callback, and the title of an accepted edit is non-empty and at
\* most 72 characters long.
C15_TitleValidated ==
  /\ (userChoice = "edit" /\ titleSubmitted) =>
        finalTitle # "" /\ Len(finalTitle) <= TITLE_MAX
  /\ (userChoice = "edit" /\ confirm = "Accepted") =>
        committed.title # "" /\ Len(committed.title) <= TITLE_MAX
  /\ (Len(typed.title) > TITLE_MAX /\ pc = "title") =>
        promptError = "Title should be under 72 characters"

\* a title of more than 72 characters was typed and the prompt is still open
C15_Witness ==
  /\ pc = "title" /\ Len(typed.title) > TITLE_MAX
  /\ promptError = "Title should be under 72 characters"

\* the first character of the title is a lower-case letter
LowercaseLed(title) ==
  Len(title) > 0 /\ \E i \in 1..Len(LOWER) : CharAt(LOWER, i) = CharAt(title, 1)

C17_TitleOfRawMessage ==
  pc = "classified" =>
     \E type \in CommitTypes :
        /\ result.title = type \o ": " \o substring0(toLowerCase(rawMessage), TITLE_CUT)
        /\ Len(result.title) <= TITLE_CUT + Len(type) + 2

\* C17, amended: the fallback title is the type, then ": ", then the message
\* with its leading and trailing white space removed, lower-cased and cut to
\* its first 60 characters, so its length is at most 60 + len(type) + 2.
C17_TitleOfTrimmedMessage ==
  pc = "classified" =>
     \E type \in CommitTypes :
        /\ result.title =
             type \o ": " \o substring0(toLowerCase(trim(rawMessage)), TITLE_CUT)
        /\ Len(result.title) <= TITLE_CUT + Len(type) + 2

\* a message with white space around it was classified
C17_Witness ==
  /\ pc = "classified" /\ rawMessage = "  Fix BUG in login "
  /\ result.title = "fix: fix bug in login"

\* the title carries a prefix that ends in ": "
HasTypePrefix(title) ==
  \E i \in 1..(Len(title) - 1) : SubSeq(title, i, i + 1) = ": "

\* the text of the title before its first ": "
TypeOf(title) ==
  LET at == CHOOSE i \in 1..(Len(title) - 1) :
              /\ SubSeq(title, i, i + 1) = ": "
              /\ \A j \in 1..(i - 1) : SubSeq(title, j, j + 1) # ": "
  IN  SubSeq(title, 1, at - 1)

\* the reason code of a candidate under the checks type enumerated, title
\* non-empty, title at most 72 characters, body present, in this order
ReasonCode(candidate) ==
  IF ~candidate.title.present \/ ~HasTypePrefix(candidate.title.val)
  THEN "MissingType"
  ELSE IF TypeOf(candidate.title.val) \notin CommitTypes THEN "UnknownType"
  ELSE IF Len(candidate.title.val) = Len(TypeOf(candidate.title.val)) + 2
  THEN "EmptyTitle"
  ELSE IF Len(candidate.title.val) > TITLE_MAX THEN "TitleTooLong"
  ELSE IF ~candidate.body.present THEN "MissingBody"
  ELSE "Valid"

\* C18: the candidate is checked in the order type, title non-empty, title
\* length, body present, and the first failing check decides: a remote
\* candidate whose type is not enumerated is rejected as UnknownType, so it
\* is not the value returned and the fallback classifier ran.
C18_UnknownTypeRejected ==
  (~data.isNull /\ ReasonCode(data) = "UnknownType") =>
     /\ fallbackCalls = 1
     /\ result # [title |-> data.title.val, body |-> data.body.val]

\* C19: when the title of a remote success response embeds a `type:` prefix
\* that is not an enumerated type, generateConventionalCommit returns the
\* fallback result and the remote title is never shown.
C19_ForeignPrefixGivesFallback ==
  ( /\ ~data.isNull /\ data.title.present
    /\ HasTypePrefix(data.title.val)
    /\ TypeOf(data.title.val) \notin CommitTypes ) =>
     /\ result = fallbackCommitGeneration(rawMessage, diff)
     /\ confirm # "None" => result.title # data.title.val

\* C20 as stated: a remote success response with a valid title and the
\* empty string as its body is returned as the result; one without a body
\* field leads to the fallback.
C20_EmptyBodyAccepted ==
  /\ ( /\ ~data.isNull /\ data.title.present
       /\ Conventional(data.title.val)
       /\ data.body = Field("") ) =>
        /\ result = [title |-> data.title.val, body |-> ""]
        /\ fallbackCalls = 0
  /\ (~data.isNull /\ ~data.body.present) => fallbackCalls = 1

\* C20, amended: a remote success response whose body field is missing or
\* is the empty string is rejected, whatever its title: the warning is
\* logged and the fallback result is returned.
C20_BodyRequired ==
  (~data.isNull /\ (~data.body.present \/ data.body.val = "")) =>
     /\ fallbackCalls = 1
     /\ "warnApi" \in logs
     /\ result = fallbackCommitGeneration(rawMessage, diff)

\* the service answered with a valid title and an empty body, and the
\* preview shows the fallback result
C20_Witness ==
  /\ data.title = Field(GoodTitle) /\ data.body = Field("") /\ ~data.isNull
  /\ genPc = "returned" /\ confirm = "Previewing" /\ result.title # GoodTitle

\* C21: when the arguments hold neither -m nor --message, passthroughToGit
\* is called with `commit` followed by the arguments as they are, and the
\* core is not entered: no staged check, no diff read, no generation, no
\* prompt and no call of commitWithMessage.
C21_PassthroughWithoutMessage ==
  (\A i \in 1..Len(argv) : argv[i] \notin {"-m", "--message"}) =>
     /\ statusCalls = 0 /\ diffCalls = 0 /\ genCalls = 0
     /\ fetches = 0 /\ fallbackCalls = 0
     /\ confirm = "None" /\ userChoice = "none"
     /\ commitCalls = 0
     /\ pc # "start" => passthroughCalls = 1 /\ passed = <<"commit">> \o argv

\* `lit commit --amend --no-edit` was handed to git and git has ended
C21_Witness ==
  /\ passed = <<"commit", "--amend", "--no-edit">>
  /\ passthroughCalls = 1 /\ pc = "exited"

\* the categories of the keyword step in their order, and their keywords
Categories == <<"feat", "fix", "refactor", "docs", "test", "perf", "style">>
CategoryWords ==
  <<FeatWords, FixWords, RefactorWords, DocsWords, TestWords, PerfWords,
    StyleWords>>

\* a keyword of category k occurs as a word in the lower-cased message
KeywordHit(message, k) == matchWord(toLowerCase(message), CategoryWords[k])
NoKeyword(message) == \A k \in 1..Len(Categories) : ~KeywordHit(message, k)

\* the type a title starts with
TitleType(title) == CHOOSE t \in CommitTypes : startsWith(title, t \o ": ")

\* C22: the type is that of the first category, in the order feat, fix,
\* refactor, docs, test, perf, style, one of whose keywords occurs in the
\* lower-cased message; keywords of later categories do not matter.
C22_FirstCategoryWins ==
  pc = "classified" =>
     \A k \in 1..Len(Categories) :
        (KeywordHit(rawMessage, k) /\ \A j \in 1..(k - 1) : ~KeywordHit(rawMessage, j))
           => startsWith(result.title, Categories[k] \o ": ")

\* a message with a fix keyword and an add keyword was classified feat
C22_Witness ==
  /\ pc = "classified"
  /\ KeywordHit(rawMessage, 1) /\ KeywordHit(rawMessage, 2)
  /\ startsWith(result.title, "feat: ")

\* C23: when the message matches a keyword category, the type does not
\* depend on the diff: classifying the same message with any other diff
\* gives the same type.
C23_TypeIgnoresDiff ==
  (pc = "classified" /\ ~NoKeyword(rawMessage)) =>
     \A d \in ClassifyDiffs :
        TitleType(fallbackCommitGeneration(rawMessage, d).title)
          = TitleType(result.title)

\* a message with a keyword was classified together with a diff of a spec
\* file, and the type is the keyword's
C23_Witness ==
  /\ pc = "classified" /\ diff = SpecDiff
  /\ rawMessage = "optimize speed" /\ startsWith(result.title, "perf: ")

\* the `diff --git` header lines of a diff: the lines that name its paths
HeaderLines(d) ==
  {LineAt(d, p) : p \in {q \in SplitStarts(d) : startsWith(LineAt(d, q), "diff --git")}}

\* a changed-file path carries a test marker, or a markdown marker
TouchesTestPaths(d) ==
  \E line \in HeaderLines(d) :
     includes(line, "test/") \/ includes(line, ".test.") \/ includes(line, ".spec.")
TouchesDocPaths(d) ==
  \E line \in HeaderLines(d) : includes(line, "README") \/ includes(line, ".md")

\* C24: when the message matches no keyword category, a diff that touches a
\* test path is classified test; otherwise a diff that touches a README or
\* markdown path is classified docs; with both signals the type is test.
C24_TestBeforeDocs ==
  (pc = "classified" /\ NoKeyword(rawMessage)) =>
     /\ TouchesTestPaths(diff) => startsWith(result.title, "test: ")
     /\ (~TouchesTestPaths(diff) /\ TouchesDocPaths(diff))
           => startsWith(result.title, "docs: ")

\* C25: the test and docs signals come from the changed-file paths only:
\* without a keyword and without a marker in a path, the type is decided
\* by the ratio of added to removed lines, whatever the content lines say.
C25_SignalsFromPathsOnly ==
  (pc = "classified" /\ NoKeyword(rawMessage)
     /\ ~TouchesTestPaths(diff) /\ ~TouchesDocPaths(diff)) =>
     startsWith(result.title,
                IF countLed(diff, "+") > 2 * countLed(diff, "-")
                THEN "feat: " ELSE "fix: ")

\* a test or markdown marker occurs in the diff
MarkerInDiff(d) ==
  \/ includes(d, "test/") \/ includes(d, ".test.") \/ includes(d, ".spec.")
  \/ includes(d, "README") \/ includes(d, ".md")

\* the number of lines of the diff that begin with exactly one c
SingleLed(d, c) ==
  Cardinality({p \in SplitStarts(d) :
                 /\ p <= Len(d) /\ CharAt(d, p) = c
                 /\ (p + 1 > Len(d) \/ CharAt(d, p + 1) # c)})

\* C26: when no keyword matches and no test or docs marker is found, the
\* type is feat exactly when the number of lines led by a single + is
\* strictly greater than twice the number of lines led by a single -, and
\* fix otherwise.
C26_RatioRule ==
  (pc = "classified" /\ NoKeyword(rawMessage) /\ ~MarkerInDiff(diff)) =>
     startsWith(result.title,
                IF SingleLed(diff, "+") > 2 * SingleLed(diff, "-")
                THEN "feat: " ELSE "fix: ")

\* two additions and one deletion, exactly twice, were classified fix
C26_Witness ==
  /\ pc = "classified" /\ NoKeyword(rawMessage) /\ diff = TwiceDiff
  /\ SingleLed(diff, "+") = 2 * SingleLed(diff, "-")
  /\ startsWith(result.title, "fix: ")

\* the added and the removed lines of a diff: the lines led by + or -
\* other than the +++ and --- file headers
AddedLines(d) ==
  {p \in SplitStarts(d) :
     p <= Len(d) /\ CharAt(d, p) = "+" /\ ~startsWith(LineAt(d, p), "+++ ")}
RemovedLines(d) ==
  {p \in SplitStarts(d) :
     p <= Len(d) /\ CharAt(d, p) = "-" /\ ~startsWith(LineAt(d, p), "--- ")}

\* C27: the addition count and the deletion count are the numbers of added
\* and of removed lines: the +++ and --- file headers are not counted and
\* every added or removed line, an empty one included, is counted once.
C27_CountsEveryChangedLine ==
  (pc = "classified" /\ NoKeyword(rawMessage) /\ ~MarkerInDiff(diff)) =>
     /\ countLed(diff, "+") = Cardinality(AddedLines(diff))
     /\ countLed(diff, "-") = Cardinality(RemovedLines(diff))

\* the post-image path of a `diff --git a/<path> b/<path>` line: the text
\* after its last " b/"
PostImage(line) ==
  LET at == CHOOSE i \in 1..(Len(line) - 2) :
              /\ SubSeq(line, i, i + 2) = " b/"
              /\ \A j \in (i + 1)..(Len(line) - 2) : SubSeq(line, j, j + 2) # " b/"
  IN  SubSeq(line, at + 3, Len(line))

\* the post-image paths of the header lines of a diff, in their order
PostImagePaths(d) ==
  LET hs == {q \in SplitStarts(d) :
               /\ startsWith(LineAt(d, q), "diff --git")
               /\ includes(LineAt(d, q), " b/")}
      nth(k) == CHOOSE p \in hs : Cardinality({q \in hs : q < p}) = k - 1
  IN  [k \in 1..Cardinality(hs) |-> PostImage(LineAt(d, nth(k)))]

\* C28: filesChanged is the sequence, in order of appearance, of the
\* complete post-image paths of the lines that begin with `diff --git`,
\* also for a path that itself contains "b/"; it is empty when there is no
\* such line.
C28_FilesChangedArePaths ==
  pc = "classified" => filesChanged(diff) = PostImagePaths(diff)

\* the lines "\n- <path>" of the first k files
RECURSIVE BulletLines(_, _)
BulletLines(files, k) ==
  IF k = 0 THEN "" ELSE BulletLines(files, k - 1) \o "\n- " \o files[k]

\* C29: the fallback body is determined by filesChanged: without a file it
\* is the generic sentence, with one file "Update <path>", with more a
\* header line followed by the first min(n, 5) paths as bullets in their
\* order.
C29_BodyFromFilesChanged ==
  pc = "classified" =>
     LET files == filesChanged(diff)
         n == Len(files)
     IN  result.body =
           IF n = 0 THEN "Update implementation"
           ELSE IF n = 1 THEN "Update " \o files[1]
           ELSE "Update multiple files:"
                  \o BulletLines(files, IF n < BODY_FILES_MAX THEN n ELSE BODY_FILES_MAX)

\* a diff of six files was summarized: five bullets, the sixth file left out
C29_Witness ==
  /\ pc = "classified" /\ Len(filesChanged(diff)) = BODY_FILES_MAX + 1
  /\ includes(result.body, "\n- f5.js") /\ ~includes(result.body, "f6.js")

\* C30: the diff of the request is the prefix of the staged diff of length
\* min(len(diff), 4000), so it has at most 4000 characters and starts at
\* the first character of the diff; the message of the request is the
\* message of the command line, unchanged.
C30_PayloadIsPrefix ==
  fetches > 0 =>
     /\ Len(sent.diff) = (IF Len(diff) < DIFF_LIMIT THEN Len(diff) ELSE DIFF_LIMIT)
     /\ sent.diff = SubSeq(diff, 1, Len(sent.diff))
     /\ sent.rawMessage = rawMessage
     /\ sent.rawMessage = argv[Len(argv)]

\* a diff of more than 4000 characters was sent, with a message that has
\* white space around it
C30_Witness ==
  /\ fetches = 1 /\ Len(diff) > DIFF_LIMIT /\ Len(sent.diff) = DIFF_LIMIT
  /\ sent.rawMessage = "  Fix BUG in login "

\* the failures of the request other than the timeout: transport, status
\* and parse failures
OtherFailures ==
  {"transport", "status", "notJson", "bodyError", "null", "missingField",
   "emptyField"}

\* C31: the kind of the remote failure selects the warning and nothing
\* else: after a timeout and after every other failure the call returns to
\* the preview with the same value, the one that the message and the diff
\* determine.
C31_FailureKindSelectsWarning ==
  /\ failure = "timeout" =>
       /\ "warnTimeout" \in logs /\ "warnApi" \notin logs
       /\ result = fallbackCommitGeneration(rawMessage, diff)
       /\ genPc = "returned" /\ fallbackCalls = 1 /\ pc # "generateConventionalCommit"
  /\ failure \in OtherFailures =>
       /\ "warnApi" \in logs /\ "warnTimeout" \notin logs
       /\ result = fallbackCommitGeneration(rawMessage, diff)
       /\ genPc = "returned" /\ fallbackCalls = 1 /\ pc # "generateConventionalCommit"

\* the request for a diff longer than the budget timed out and the preview
\* is shown
C31_Witness ==
  /\ failure = "timeout" /\ Len(diff) > DIFF_LIMIT
  /\ pc = "select" /\ "warnTimeout" \in logs

\* C32: a remote success response with a title and a body but no type is
\* given the type of the keyword step applied to the returned title, and
\* the result shown to the user carries that enumerated type.
C32_UntypedTitleGetsType ==
  ( /\ ~data.isNull
    /\ data.title.present /\ data.title.val # ""
    /\ data.body.present /\ data.body.val # ""
    /\ ~HasTypePrefix(data.title.val)
    /\ ~NoKeyword(data.title.val) ) =>
     \E k \in 1..Len(Categories) :
        /\ KeywordHit(data.title.val, k)
        /\ \A j \in 1..(k - 1) : ~KeywordHit(data.title.val, j)
        /\ startsWith(result.title, Categories[k] \o ": ")

\* C33: within one attempt the git boundary is used in the order
\* hasStagedFiles, getStagedDiff, commitWithMessage, each at most once: the
\* diff is read after a positive staged check and before generation,
\* generation has returned when the preview is shown, and the commit is
\* called only after the user's decision.
C33_GitBoundaryOrder ==
  /\ statusCalls <= 1 /\ diffCalls <= 1 /\ commitCalls <= 1
  /\ diffCalls = 1 => statusCalls = 1 /\ hasStaged = "true"
  /\ genCalls > 0 => diffCalls = 1 /\ pc # "getStagedDiff" /\ genCalls = 1
  /\ confirm # "None" => genCalls = 1 /\ genPc = "returned"
  /\ commitCalls = 1 =>
       /\ diffCalls = 1 /\ genPc = "returned"
       /\ confirm = "Accepted" /\ userChoice \in {"accept", "edit"}
  /\ pc = "getStagedDiff" => genCalls = 0 /\ commitCalls = 0

\* the three calls were made and the commit was created
C33_Witness ==
  /\ statusCalls = 1 /\ diffCalls = 1 /\ genCalls = 1 /\ commitCalls = 1
  /\ commitResult = "created" /\ fetches = 1

\* C34: in Editing, a body prompt submitted without input gives the commit
\* the body of the generated candidate; the body prompt has no validation,
\* so every submitted line, empty or not, leads to Accepted and the commit.
C34_BodyDefaultsToCandidate ==
  /\ (userChoice = "edit" /\ bodySubmitted) =>
        /\ confirm = "Accepted" /\ commitCalls = 1
        /\ typed.body = "" => committed.body = result.body
        /\ typed.body # "" => committed.body = typed.body
  /\ pc = "body" => ~bodySubmitted /\ typed.body = ""

\* the title was replaced, the body prompt was submitted empty, and the
\* commit got the candidate's body
C34_Witness ==
  /\ userChoice = "edit" /\ bodySubmitted /\ typed.body = ""
  /\ committed.title = "fix: edited title" /\ committed.body = result.body
  /\ result.body # ""

C36_ValidResponseReturned ==
  ( /\ ~data.isNull
    /\ data.title.present /\ Conventional(data.title.val)
    /\ data.body.present /\ data.body.val # "" ) =>
     /\ result = [title |-> data.title.val, body |-> data.body.val]
     /\ fallbackCalls = 0
     /\ logs \cap {"warnApi", "warnTimeout", "warnConfig"} = {}
     /\ genPc = "returned" /\ fetches = 1 /\ timer = "cleared"

\* the valid response is shown in the preview
C36_Witness ==
  /\ data.title = Field(GoodTitle) /\ data.body = Field(GoodBody)
  /\ result = [title |-> GoodTitle, body |-> GoodBody]
  /\ confirm = "Previewing" /\ fallbackCalls = 0

\* C37: when hasStagedFiles, getStagedDiff or commitWithMessage fails, the
\* attempt has ended with a non-zero exit status, the success message was
\* not logged, and commitWithMessage was not called again.
C37_GitFailureEndsAttempt ==
  (hasStaged = "throw" \/ diffResult = "failed" \/ commitResult = "failed") =>
     /\ pc = "exited" /\ exitCode # RUNNING /\ exitCode # 0
     /\ "success" \notin logs /\ "error" \in logs
     /\ commitCalls = (IF commitResult = "failed" THEN 1 ELSE 0)

\* the commit was accepted and git.commit failed
C37_Witness ==
  /\ commitResult = "failed" /\ confirm = "Accepted" /\ commitCalls = 1
  /\ pc = "exited" /\ exitCode = 1

\* the words of a text: its maximal runs of letters, digits and underscores
WordsOf(s) ==
  LET W(i) == IsWordChar(CharAt(s, i))
      starts == {i \in 1..Len(s) : W(i) /\ (i = 1 \/ ~W(i - 1))}
      ends   == {j \in 1..Len(s) : W(j) /\ (j = Len(s) \/ ~W(j + 1))}
  IN  {SubSeq(s, i, CHOOSE j \in ends : j >= i /\ \A k \in ends : k >= i => j <= k)
         : i \in starts}

AllKeywords ==
  FeatWords \cup FixWords \cup RefactorWords \cup DocsWords \cup TestWords
    \cup PerfWords \cup StyleWords

\* C38: keywords match whole words only: when no word of the lower-cased
\* message is in a category's list, no keyword category applies, whatever
\* longer forms of keywords the message holds, and the diff rules decide
\* the type.
C38_WholeWordsOnly ==
  (pc = "classified" /\ WordsOf(toLowerCase(rawMessage)) \cap AllKeywords = {}) =>
     startsWith(result.title, diffType(diff) \o ": ")

\* a message of inflected forms was classified with the diff of a spec file
C38_Witness ==
  /\ pc = "classified" /\ rawMessage = "fixed docs tests adding"
  /\ diff = SpecDiff /\ startsWith(result.title, "test: ")

====
